---- MODULE Spec2Model ----
(***************************************************************************)
(* The course list view of src/src/sanity/api.ts: the Home component       *)
(* (filter predicate, sort comparator, page-bounds effect) and the         *)
(* Pagination component (next/previous controls, page window).             *)
(*                                                                         *)
(* Numbers are modelled as integers; a JavaScript value is a record        *)
(* [t, v] whose tag t tells a number from null, undefined, NaN and         *)
(* Infinity.                                                               *)
(***************************************************************************)
EXTENDS Integers, Sequences, FiniteSets, TLC

VARIABLES
  courses,               \* props.courses of Home
  engine,                \* the JavaScript engine that runs Array.prototype.sort
  sort,                  \* useState<SortConfig>
  minReviewCount, maxReviewCount,
  minRating, maxRating,
  minDifficulty, maxDifficulty,
  minWorkload, maxWorkload,
  hideDeprecated, onlyShowFoundational,
  pageSize, pageNumber,
  current,               \* the filtered and sorted array of the last render
  props,                 \* the props of Pagination in the last render
  paginationChunks,      \* the page window of the last render of Pagination
  effectPending,         \* the useEffect of the last render has not run yet
  events,                \* number of user events handled so far
  req,                   \* the request the reviews API handles
  res                    \* the responses sent for it, in order

rangeVars == <<minReviewCount, maxReviewCount, minRating, maxRating,
               minDifficulty, maxDifficulty, minWorkload, maxWorkload>>
toggleVars == <<hideDeprecated, onlyShowFoundational>>
apiVars == <<req, res>>
vars == <<courses, engine, sort, rangeVars, toggleVars, pageSize, pageNumber,
          current, props, paginationChunks, effectPending, events, apiVars>>

----------------------------------------------------------------------------
(* Bounds of the model *)

MaxEvents == 2          \* user events in a run of the list view
MaxFilterEvents == 2    \* user events in a run of the filter form
MaxSortEvents == 3      \* user events in a run of the sort headers
MaxCourses == 3         \* length of the collections that are sorted
MaxResultCount == 101   \* resultCount handed to Pagination on its own
MaxBadFields == 2       \* keys of a review that differ from a valid review

----------------------------------------------------------------------------
(* JavaScript values *)

Num(n) == [t |-> "num", v |-> n]
Null == [t |-> "null", v |-> 0]
Undefined == [t |-> "undefined", v |-> 0]
NaN == [t |-> "nan", v |-> 0]
Infinity == [t |-> "inf", v |-> 0]

\* ToBoolean of a number, undefined or NaN
Truthy(x) == x.t = "inf" \/ (x.t = "num" /\ x.v # 0)

\* x ?? d: only undefined and null give the default
JsNullish(x, d) == IF x.t \in {"undefined", "null"} THEN d ELSE x

\* x || d
JsOr(x, d) == IF Truthy(x) THEN x ELSE d

\* a >= b and a <= b on numbers (NaN compares false with everything)
JsGe(a, b) ==
  CASE a.t = "num" /\ b.t = "num" -> a.v >= b.v
    [] a.t = "inf" /\ b.t \in {"num", "inf"} -> TRUE
    [] OTHER -> FALSE

JsLe(a, b) ==
  CASE a.t = "num" /\ b.t = "num" -> a.v <= b.v
    [] a.t \in {"num", "inf"} /\ b.t = "inf" -> TRUE
    [] OTHER -> FALSE

----------------------------------------------------------------------------
(* parseFloat on the text of an input field. A text is a sequence of       *)
(* one-character strings.                                                  *)

Digits == <<"0", "1", "2", "3", "4", "5", "6", "7", "8", "9">>

IsDigit(ch) == \E i \in 1..10 : Digits[i] = ch

DigitVal(ch) == (CHOOSE i \in 1..10 : Digits[i] = ch) - 1

RECURSIVE SkipSpace(_)
SkipSpace(s) == IF s # <<>> /\ Head(s) = " " THEN SkipSpace(Tail(s)) ELSE s

\* value of the longest run of digits at the start of s, continuing acc
RECURSIVE DigitRun(_, _)
DigitRun(s, acc) ==
  IF s # <<>> /\ IsDigit(Head(s))
  THEN DigitRun(Tail(s), 10 * acc + DigitVal(Head(s)))
  ELSE acc

parseFloat(text) ==
  LET s == SkipSpace(text)
      neg == s # <<>> /\ Head(s) = "-"
      body == IF s # <<>> /\ Head(s) \in {"-", "+"} THEN Tail(s) ELSE s
  IN IF body # <<>> /\ IsDigit(Head(body))
     THEN Num(IF neg THEN 0 - DigitRun(body, 0) ELSE DigitRun(body, 0))
     ELSE NaN

----------------------------------------------------------------------------
(* Home: the filter predicate *)

\* between with the bounds excluded
betweenExclusive(value, min, max) ==
  IF value = Null THEN TRUE
  ELSE JsGe(value, min) /\ JsLe(value, max) /\ value # min /\ value # max

\* between without the null case
betweenNoNull(value, min, max) == JsGe(value, min) /\ JsLe(value, max)

between(value, min, max) ==
  IF value = Null THEN TRUE ELSE JsGe(value, min) /\ JsLe(value, max)

\* the effective bounds: the arguments handed to between
EffMinReviewCount == JsOr(minReviewCount, Num(0))
EffMaxReviewCount == JsOr(maxReviewCount, Infinity)
EffMinRating == JsOr(minRating, Num(1))
EffMaxRating == JsOr(maxRating, Num(5))
EffMinDifficulty == JsOr(minDifficulty, Num(1))
EffMaxDifficulty == JsOr(maxDifficulty, Num(5))
EffMinWorkload == JsOr(minWorkload, Num(1))
EffMaxWorkload == JsOr(maxWorkload, Num(100))

\* the callback of courses.filter
Admit(c) ==
  /\ between(c.reviewCount, EffMinReviewCount, EffMaxReviewCount)
  /\ between(c.rating, EffMinRating, EffMaxRating)
  /\ between(c.difficulty, EffMinDifficulty, EffMaxDifficulty)
  /\ between(c.workload, EffMinWorkload, EffMaxWorkload)
  /\ (IF hideDeprecated THEN c.isDeprecated = FALSE ELSE TRUE)
  /\ (IF onlyShowFoundational THEN c.isFoundational = TRUE ELSE TRUE)

Filtered == SelectSeq(courses, Admit)

----------------------------------------------------------------------------
(* Home: the sort comparator *)

\* the collation order of the course names of the model, lowest first
Collation == <<"algorithms", "Algorithms", "Compilers", "Databases">>

CollationIndex(name) == CHOOSE i \in 1..Len(Collation) : Collation[i] = name

localeCompare(x, y) ==
  IF CollationIndex(x) < CollationIndex(y) THEN -1
  ELSE IF CollationIndex(x) > CollationIndex(y) THEN 1 ELSE 0

\* the comparator with the direction applied to the null cases too
comparefnNullByDirection(a, b) ==
  LET ordering == IF sort.direction = "asc" THEN 1 ELSE -1
      attribute == sort.attribute
  IN IF attribute = "name" THEN localeCompare(a[attribute], b[attribute]) * ordering
     ELSE IF a[attribute] = Null THEN 1 * ordering
     ELSE IF b[attribute] = Null THEN -1 * ordering
     ELSE (a[attribute].v - b[attribute].v) * ordering

\* the comparator with the direction left out of the numeric case
comparefnAscendingOnly(a, b) ==
  LET ordering == IF sort.direction = "asc" THEN 1 ELSE -1
      attribute == sort.attribute
  IN IF attribute = "name" THEN localeCompare(a[attribute], b[attribute]) * ordering
     ELSE IF a[attribute] = Null THEN 1
     ELSE IF b[attribute] = Null THEN -1
     ELSE a[attribute].v - b[attribute].v

\* the callback of .sort
comparefn(a, b) ==
  LET ordering == IF sort.direction = "asc" THEN 1 ELSE -1
      attribute == sort.attribute
  IN IF attribute = "name" THEN localeCompare(a[attribute], b[attribute]) * ordering
     ELSE IF a[attribute] = Null THEN 1
     ELSE IF b[attribute] = Null THEN -1
     ELSE (a[attribute].v - b[attribute].v) * ordering

----------------------------------------------------------------------------
(* Array.prototype.sort. With a consistent comparator every engine gives   *)
(* the one stable order; with an inconsistent one the order is             *)
(* implementation-defined, so the algorithm of the engine is modelled:     *)
(* SpiderMonkey's insertion sort (arrays shorter than 24) and V8's run     *)
(* detection followed by binary insertion (arrays shorter than 64).        *)

Engines == {"v8", "spidermonkey"}

\* SpiderMonkey InsertionSort, inner loop: item moves left past every
\* element swap with comparefn(swap, item) > 0
RECURSIVE InsertFromRight(_, _, _)
InsertFromRight(arr, item, j) ==
  IF j >= 1 /\ comparefn(arr[j], item) > 0
  THEN InsertFromRight(arr, item, j - 1)
  ELSE SubSeq(arr, 1, j) \o <<item>> \o SubSeq(arr, j + 1, Len(arr))

\* one pass of the outer loop: arr[i] is inserted into arr[1..i-1]
InsertionPass(arr, i) ==
  InsertFromRight(SubSeq(arr, 1, i - 1), arr[i], i - 1) \o SubSeq(arr, i + 1, Len(arr))

\* (the array after a pass is bound as a value before the next pass reads it)
RECURSIVE InsertionSort(_, _)
InsertionSort(arr, i) ==
  IF i > Len(arr) THEN arr
  ELSE CHOOSE sorted \in {InsertionSort(next, i + 1) : next \in {InsertionPass(arr, i)}} : TRUE

\* V8 CountAndMakeRun: the length of the run that starts the array
RECURSIVE RunEnd(_, _, _)
RunEnd(arr, idx, isDescending) ==
  IF idx > Len(arr) THEN Len(arr)
  ELSE LET order == comparefn(arr[idx], arr[idx - 1])
       IN IF (isDescending /\ order >= 0) \/ (~isDescending /\ order < 0)
          THEN idx - 1
          ELSE RunEnd(arr, idx + 1, isDescending)

ReverseRange(arr, n) ==
  [i \in 1..Len(arr) |-> IF i <= n THEN arr[n + 1 - i] ELSE arr[i]]

\* V8 BinaryInsertionSort, the search: left and right are zero-based
RECURSIVE BinarySearch(_, _, _, _)
BinarySearch(arr, pivot, left, right) ==
  IF left < right
  THEN LET mid == left + ((right - left) \div 2)
       IN IF comparefn(pivot, arr[mid + 1]) < 0
          THEN BinarySearch(arr, pivot, left, mid)
          ELSE BinarySearch(arr, pivot, mid + 1, right)
  ELSE left

\* start is zero-based: arr[1..start] is sorted, arr[start + 1] is the pivot
BinaryInsertionPass(arr, start) ==
  LET pivot == arr[start + 1]
  IN CHOOSE next \in
       {SubSeq(arr, 1, left) \o <<pivot>> \o SubSeq(arr, left + 1, start)
          \o SubSeq(arr, start + 2, Len(arr)) :
        left \in {BinarySearch(arr, pivot, 0, start)}} : TRUE

RECURSIVE BinaryInsertionSort(_, _)
BinaryInsertionSort(arr, start) ==
  IF start >= Len(arr) THEN arr
  ELSE CHOOSE sorted \in
         {BinaryInsertionSort(next, start + 1) : next \in {BinaryInsertionPass(arr, start)}} : TRUE

V8Sort(arr) ==
  IF Len(arr) < 2 THEN arr
  ELSE LET isDescending == comparefn(arr[2], arr[1]) < 0
       IN CHOOSE sorted \in
            {BinaryInsertionSort(IF isDescending THEN ReverseRange(arr, runLength) ELSE arr,
                                 runLength) :
             runLength \in {RunEnd(arr, 3, isDescending)}} : TRUE

ArraySort(arr) ==
  IF engine = "v8" THEN V8Sort(arr) ELSE InsertionSort(arr, 2)

\* the sort applied to the collection as it came, without the filter
CurrentUnfiltered == CHOOSE sorted \in {ArraySort(all) : all \in {courses}} : TRUE

\* const current = courses.filter(...).sort(...)
Current == CHOOSE sorted \in {ArraySort(filtered) : filtered \in {Filtered}} : TRUE

\* const slice = current.slice(pageNumber * pageSize, pageNumber * pageSize + pageSize)
Slice ==
  SubSeq(current, pageNumber * pageSize + 1,
         IF pageNumber * pageSize + pageSize < Len(current)
         THEN pageNumber * pageSize + pageSize ELSE Len(current))

----------------------------------------------------------------------------
(* Pagination, a function of its props p = [pageSize, pageNumber,          *)
(* resultCount]                                                            *)

pageSizes == <<10, 25, 50>>

rangeStart(p) == p.pageNumber * p.pageSize

hasNextPage(p) == rangeStart(p) + p.pageSize - 1 <= p.resultCount

hasPrevPage(p) == p.pageNumber # 0

\* Math.ceil(resultCount / pageSize)
totalPages(p) == (p.resultCount + p.pageSize - 1) \div p.pageSize

\* the page window with the near-start case ending one page early
PaginationChunksEarlyMiddle(p) ==
  IF totalPages(p) <= 7
  THEN << [i \in 1..totalPages(p) |-> i - 1] >>
  ELSE IF p.pageNumber < 3
  THEN << <<0, 1, 2, 3, 4>>, <<totalPages(p) - 1>> >>
  ELSE IF totalPages(p) - p.pageNumber <= 4
  THEN << <<0>>, [i \in 1..5 |-> totalPages(p) - <<5, 4, 3, 2, 1>>[i]] >>
  ELSE << <<0>>,
          <<p.pageNumber - 1, p.pageNumber, p.pageNumber + 1>>,
          <<totalPages(p) - 1>> >>

\* the page window with no group at all when there is no page
PaginationChunksNoGroups(p) ==
  IF totalPages(p) = 0
  THEN <<>>
  ELSE IF totalPages(p) <= 7
  THEN << [i \in 1..totalPages(p) |-> i - 1] >>
  ELSE IF p.pageNumber <= 3
  THEN << <<0, 1, 2, 3, 4>>, <<totalPages(p) - 1>> >>
  ELSE IF totalPages(p) - p.pageNumber <= 4
  THEN << <<0>>, [i \in 1..5 |-> totalPages(p) - <<5, 4, 3, 2, 1>>[i]] >>
  ELSE << <<0>>,
          <<p.pageNumber - 1, p.pageNumber, p.pageNumber + 1>>,
          <<totalPages(p) - 1>> >>

\* the page window whose near-end group runs one page past the last
PaginationChunksPastEnd(p) ==
  IF totalPages(p) <= 7
  THEN << [i \in 1..totalPages(p) |-> i - 1] >>
  ELSE IF p.pageNumber <= 3
  THEN << <<0, 1, 2, 3, 4>>, <<totalPages(p) - 1>> >>
  ELSE IF totalPages(p) - p.pageNumber <= 4
  THEN << <<0>>, [i \in 1..5 |-> totalPages(p) - <<4, 3, 2, 1, 0>>[i]] >>
  ELSE << <<0>>,
          <<p.pageNumber - 1, p.pageNumber, p.pageNumber + 1>>,
          <<totalPages(p) - 1>> >>

PaginationChunks(p) ==
  IF totalPages(p) <= 7
  THEN << [i \in 1..totalPages(p) |-> i - 1] >>
  ELSE IF p.pageNumber <= 3
  THEN << <<0, 1, 2, 3, 4>>, <<totalPages(p) - 1>> >>
  ELSE IF totalPages(p) - p.pageNumber <= 4
  THEN << <<0>>, [i \in 1..5 |-> totalPages(p) - <<5, 4, 3, 2, 1>>[i]] >>
  ELSE << <<0>>,
          <<p.pageNumber - 1, p.pageNumber, p.pageNumber + 1>>,
          <<totalPages(p) - 1>> >>

\* the page labels rendered as buttons
RECURSIVE Flatten(_)
Flatten(chunks) ==
  IF chunks = <<>> THEN <<>> ELSE Head(chunks) \o Flatten(Tail(chunks))

PageButtons == {Flatten(paginationChunks)[i] : i \in 1..Len(Flatten(paginationChunks))}

----------------------------------------------------------------------------
(* Inputs *)

Course(id, name, reviewCount, rating, difficulty, workload, isDeprecated, isFoundational) ==
  [id |-> id, name |-> name, reviewCount |-> reviewCount, rating |-> rating,
   difficulty |-> difficulty, workload |-> workload,
   isDeprecated |-> isDeprecated, isFoundational |-> isFoundational]

\* the course collections of the list view: 0, 12 or 23 reviewed courses
CatalogueCourse(i) ==
  Course(i, Collation[(i % 4) + 1], Num(1 + (i % 3)),
         IF i <= 15 THEN Num(4) ELSE Num(2), Num(1 + (i % 5)),
         IF i % 7 = 0 THEN Null ELSE Num(10 + i), i > 20, i % 2 = 0)

Catalogues == {[i \in 1..n |-> CatalogueCourse(i)] : n \in {0, 12, 23}}

\* the collection of the filter form
FilterCatalogue ==
  << Course(1, "Algorithms", Num(0), Null, Null, Null, FALSE, TRUE),
     Course(2, "Compilers", Num(3), Num(2), Num(4), Num(10), TRUE, FALSE),
     Course(3, "Databases", Num(1), Num(4), Num(2), Num(100), FALSE, FALSE),
     Course(4, "algorithms", Num(5), Num(5), Num(1), Num(1), FALSE, TRUE),
     Course(5, "Compilers", Num(2), Num(1), Num(5), Null, TRUE, TRUE) >>

\* the courses that are sorted: two without reviews, two with equal keys
SortSamples ==
  { Course(1, "Compilers", Num(2), Num(3), Num(2), Num(10), FALSE, FALSE),
    Course(2, "algorithms", Num(0), Null, Null, Null, FALSE, FALSE),
    Course(3, "Algorithms", Num(0), Null, Null, Null, FALSE, TRUE),
    Course(4, "Compilers", Num(2), Num(3), Num(4), Num(20), TRUE, FALSE),
    Course(5, "Databases", Num(7), Num(5), Num(1), Null, FALSE, FALSE) }

\* every collection of at most MaxCourses distinct sample courses
SortInputs ==
  UNION {{cs \in [1..n -> SortSamples] : \A i, j \in 1..n : i # j => cs[i] # cs[j]}
           : n \in 0..MaxCourses}

\* texts typed into an input field
Texts == { <<>>, <<"a", "b", "c">>, <<"0">>, <<"2">>, <<"4">>, <<"7">>, <<"-", "1">>,
           <<"5", "0", "0">> }
HomeTexts == { <<>>, <<"4">> }
SortTexts == { <<>>, <<"0">> }

Attributes == {"name", "difficulty", "reviewCount", "rating", "workload"}
NumericAttributes == Attributes \ {"name"}

\* props of a Pagination mounted on its own
WindowProps ==
  {[pageSize |-> pageSizes[k], pageNumber |-> 0, resultCount |-> n] :
     k \in 1..Len(pageSizes), n \in 0..MaxResultCount}

----------------------------------------------------------------------------
(* The reviews API: the Joi schema of a review and the request handler     *)

Str(chars) == [t |-> "str", v |-> chars]
Frac(n) == [t |-> "frac", v |-> n]      \* the number n + 0.5

\* the keys of the schema, in its order
schema ==
  << [key |-> "semesterId", type |-> "string", min |-> 0, max |-> 0, label |-> "Semester"],
     [key |-> "courseId", type |-> "string", min |-> 0, max |-> 0, label |-> "Course"],
     [key |-> "rating", type |-> "number", min |-> 1, max |-> 5, label |-> "Rating"],
     [key |-> "difficulty", type |-> "number", min |-> 1, max |-> 5, label |-> "Difficulty"],
     [key |-> "workload", type |-> "number", min |-> 1, max |-> 100, label |-> "Workload"],
     [key |-> "body", type |-> "string", min |-> 0, max |-> 0, label |-> "Body"],
     [key |-> "username", type |-> "string", min |-> 0, max |-> 0, label |-> "Username"] >>

SchemaKeys == {schema[i].key : i \in 1..Len(schema)}

Detail(label, type) == [label |-> label, type |-> type]

\* Joi.string().required()
StringErrors(rule, x) ==
  IF x = Undefined THEN << Detail(rule.label, "any.required") >>
  ELSE IF x.t # "str" THEN << Detail(rule.label, "string.base") >>
  ELSE IF x.v = <<>> THEN << Detail(rule.label, "string.empty") >>
  ELSE <<>>

\* a text Joi converts to a number: an optional sign and digits
IsNumeral(chars) ==
  LET body == IF chars # <<>> /\ Head(chars) \in {"-", "+"} THEN Tail(chars) ELSE chars
  IN body # <<>> /\ \A i \in 1..Len(body) : IsDigit(body[i])

\* the conversion of Joi.number() (convert is on by default)
Coerce(x) == IF x.t = "str" /\ IsNumeral(x.v) THEN parseFloat(x.v) ELSE x

\* Joi.number().required().integer().min(..).max(..), every failed rule reported
NumberErrors(rule, x) ==
  IF x = Undefined THEN << Detail(rule.label, "any.required") >>
  ELSE LET y == Coerce(x) IN
    IF y.t = "num"
    THEN (IF y.v < rule.min THEN << Detail(rule.label, "number.min") >> ELSE <<>>)
         \o (IF y.v > rule.max THEN << Detail(rule.label, "number.max") >> ELSE <<>>)
    ELSE IF y.t = "frac"
    THEN << Detail(rule.label, "number.integer") >>
         \o (IF y.v < rule.min THEN << Detail(rule.label, "number.min") >> ELSE <<>>)
         \o (IF y.v >= rule.max THEN << Detail(rule.label, "number.max") >> ELSE <<>>)
    ELSE << Detail(rule.label, "number.base") >>

RECURSIVE KeyErrors(_, _)
KeyErrors(object, i) ==
  IF i > Len(schema) THEN <<>>
  ELSE (IF schema[i].type = "string"
        THEN StringErrors(schema[i], object[schema[i].key])
        ELSE NumberErrors(schema[i], object[schema[i].key]))
       \o KeyErrors(object, i + 1)

\* a key the schema does not name is not allowed
UnknownErrors(object) ==
  IF object.code # Undefined THEN << Detail("code", "object.unknown") >> ELSE <<>>

\* schema.validate(req.body, { abortEarly: false, ... }).error.details
validate(body) ==
  IF body.t # "object" THEN << Detail("value", "object.base") >>
  ELSE KeyErrors(body.v, 1) \o UnknownErrors(body.v)

\* res.status(status).json({}) and res.status(status).json({ errors })
Empty(status) == [status |-> status, keys |-> {}, errors |-> <<>>]
Errors(status, details) == [status |-> status, keys |-> {"errors"}, errors |-> details]

\* the handler without the return that follows the 405
handlerNoReturn(request) ==
  (IF request.method # "POST" THEN << Empty(405) >> ELSE <<>>)
  \o (IF validate(request.body) # <<>>
      THEN << Errors(400, validate(request.body)) >>
      ELSE << Empty(201) >>)

\* the responses handler sends for request, in order
handler(request) ==
  IF request.method # "POST" THEN << Empty(405) >>
  ELSE IF validate(request.body) # <<>>
  THEN << Errors(400, validate(request.body)) >>
  ELSE << Empty(201) >>

\* a review the schema accepts
ValidReview ==
  [semesterId |-> Str(<<"s">>), courseId |-> Str(<<"c">>), rating |-> Num(4),
   difficulty |-> Num(3), workload |-> Num(12), body |-> Str(<<"o", "k">>),
   username |-> Str(<<"u">>), code |-> Undefined]

\* what a client sends under a key; code is the key handler reads and the
\* schema does not name
KeyInputs(key) ==
  CASE key \in {"rating", "difficulty"} ->
         {Undefined, Null, Num(0), Num(1), Num(5), Num(6), Frac(2), Str(<<"3">>), Str(<<"a">>)}
    [] key = "workload" ->
         {Undefined, Num(0), Num(1), Num(100), Num(101), Frac(0), Str(<<"7">>), Str(<<>>)}
    [] key = "code" -> {Undefined, Str(<<"x">>)}
    [] OTHER -> {Undefined, Str(<<>>), Str(<<"x">>), Num(1)}

KeyChoices ==
  UNION {{[key |-> key, value |-> x] : x \in KeyInputs(key)} : key \in SchemaKeys \cup {"code"}}

\* the reviews that differ from ValidReview under at most n keys
RECURSIVE Reviews(_)
Reviews(n) ==
  IF n = 0 THEN {ValidReview}
  ELSE LET fewer == Reviews(n - 1)
       IN fewer \cup {[r EXCEPT ![c.key] = c.value] : r \in fewer, c \in KeyChoices}

\* req.body as the body parser leaves it: an object, or the text of a body
\* that is not JSON (the empty text when no body was sent)
Bodies ==
  {[t |-> "object", v |-> r] : r \in Reviews(MaxBadFields)}
    \cup {Str(<<>>), Str(<<"h", "i">>)}

Methods == {"GET", "POST", "PUT", "DELETE"}

Requests == {[method |-> m, body |-> b] : m \in Methods, b \in Bodies}

\* no request has come in yet
NoRequest == [method |-> "", body |-> Str(<<>>)]

Idle == req = NoRequest /\ res = <<>>

----------------------------------------------------------------------------
(* Home: mount, render, effect *)

PropsOf(size, number, count) ==
  [pageSize |-> size, pageNumber |-> number, resultCount |-> count]

\* the defaults with no minimum of reviews
HomeStateNoMinimum(cs) ==
  /\ courses = cs
  /\ engine \in Engines
  /\ sort = [attribute |-> "reviewCount", direction |-> "desc"]
  /\ minReviewCount = Undefined
  /\ maxReviewCount = Undefined
  /\ minRating = Undefined
  /\ maxRating = Undefined
  /\ minDifficulty = Undefined
  /\ maxDifficulty = Undefined
  /\ minWorkload = Undefined
  /\ maxWorkload = Undefined
  /\ hideDeprecated = FALSE
  /\ onlyShowFoundational = FALSE
  /\ pageSize = 10
  /\ pageNumber = 0
  /\ events = 0

\* the useState defaults of Home and its props
HomeState(cs) ==
  /\ courses = cs
  /\ engine \in Engines
  /\ sort = [attribute |-> "reviewCount", direction |-> "desc"]
  /\ minReviewCount = Num(1)
  /\ maxReviewCount = Undefined
  /\ minRating = Undefined
  /\ maxRating = Undefined
  /\ minDifficulty = Undefined
  /\ maxDifficulty = Undefined
  /\ minWorkload = Undefined
  /\ maxWorkload = Undefined
  /\ hideDeprecated = FALSE
  /\ onlyShowFoundational = FALSE
  /\ pageSize = 10
  /\ pageNumber = 0
  /\ events = 0

\* the state after Home mounts with the collection cs: the first render is
\* done and its effect is scheduled
Mount(cs) ==
  /\ HomeState(cs)
  /\ Idle
  /\ current = Current
  /\ props = PropsOf(pageSize, pageNumber, Len(current))
  /\ paginationChunks = PaginationChunks(props)
  /\ effectPending = TRUE

\* a state change makes Home render again: current is computed anew, Pagination
\* gets new props, and the effect (current is among its dependencies) is scheduled
Rerender ==
  /\ current' = Current'
  /\ props' = PropsOf(pageSize', pageNumber', Len(current'))
  /\ paginationChunks' = PaginationChunks(props')
  /\ effectPending' = TRUE

\* a setter called with the value the state already holds renders nothing
Bailout == UNCHANGED <<current, props, paginationChunks, effectPending>>

\* the effect going back to the first page instead of the last one
RunEffectFirstPage ==
  /\ effectPending
  /\ UNCHANGED <<apiVars, courses, engine, sort, rangeVars, toggleVars, pageSize, events>>
  /\ IF pageSize * pageNumber >= Len(current)
     THEN pageNumber' = 0
     ELSE pageNumber' = pageNumber
  /\ IF pageNumber' # pageNumber
     THEN Rerender
     ELSE /\ effectPending' = FALSE
          /\ UNCHANGED <<current, props, paginationChunks>>

\* the effect going back one page at a time
RunEffectStepBack ==
  /\ effectPending
  /\ UNCHANGED <<apiVars, courses, engine, sort, rangeVars, toggleVars, pageSize, events>>
  /\ IF pageSize * pageNumber >= Len(current) /\ pageNumber > 0
     THEN pageNumber' = pageNumber - 1
     ELSE pageNumber' = pageNumber
  /\ IF pageNumber' # pageNumber
     THEN Rerender
     ELSE /\ effectPending' = FALSE
          /\ UNCHANGED <<current, props, paginationChunks>>

\* useEffect(() => { if (pageSize * pageNumber >= current.length) setPageNumber(...) })
RunEffect ==
  /\ effectPending
  /\ UNCHANGED <<apiVars, courses, engine, sort, rangeVars, toggleVars, pageSize, events>>
  /\ IF pageSize * pageNumber >= Len(current)
     THEN pageNumber' = Len(current) \div pageSize
     ELSE pageNumber' = pageNumber
  /\ IF pageNumber' # pageNumber
     THEN Rerender
     ELSE /\ effectPending' = FALSE
          /\ UNCHANGED <<current, props, paginationChunks>>

----------------------------------------------------------------------------
(* Home: the user events. An event is handled once the effect of the last  *)
(* render has run.                                                         *)

\* onBlur of the input: setMinReviewCount(parseFloat(e.currentTarget.value))
SetMinReviewCount(text) ==
  /\ ~effectPending
  /\ events' = events + 1
  /\ minReviewCount' = parseFloat(text)
  /\ UNCHANGED <<apiVars, courses, engine, sort, maxReviewCount, minRating, maxRating, minDifficulty, maxDifficulty, minWorkload, maxWorkload,
                 toggleVars, pageSize, pageNumber>>
  /\ IF minReviewCount' = minReviewCount THEN Bailout ELSE Rerender

\* onBlur of the input: setMaxReviewCount(parseFloat(e.currentTarget.value))
SetMaxReviewCount(text) ==
  /\ ~effectPending
  /\ events' = events + 1
  /\ maxReviewCount' = parseFloat(text)
  /\ UNCHANGED <<apiVars, courses, engine, sort, minReviewCount, minRating, maxRating, minDifficulty, maxDifficulty, minWorkload, maxWorkload,
                 toggleVars, pageSize, pageNumber>>
  /\ IF maxReviewCount' = maxReviewCount THEN Bailout ELSE Rerender

\* onBlur of the input: setMinRating(parseFloat(e.currentTarget.value))
SetMinRating(text) ==
  /\ ~effectPending
  /\ events' = events + 1
  /\ minRating' = parseFloat(text)
  /\ UNCHANGED <<apiVars, courses, engine, sort, minReviewCount, maxReviewCount, maxRating, minDifficulty, maxDifficulty, minWorkload, maxWorkload,
                 toggleVars, pageSize, pageNumber>>
  /\ IF minRating' = minRating THEN Bailout ELSE Rerender

\* onBlur of the input: setMaxRating(parseFloat(e.currentTarget.value))
SetMaxRating(text) ==
  /\ ~effectPending
  /\ events' = events + 1
  /\ maxRating' = parseFloat(text)
  /\ UNCHANGED <<apiVars, courses, engine, sort, minReviewCount, maxReviewCount, minRating, minDifficulty, maxDifficulty, minWorkload, maxWorkload,
                 toggleVars, pageSize, pageNumber>>
  /\ IF maxRating' = maxRating THEN Bailout ELSE Rerender

\* onBlur of the input: setMinDifficulty(parseFloat(e.currentTarget.value))
SetMinDifficulty(text) ==
  /\ ~effectPending
  /\ events' = events + 1
  /\ minDifficulty' = parseFloat(text)
  /\ UNCHANGED <<apiVars, courses, engine, sort, minReviewCount, maxReviewCount, minRating, maxRating, maxDifficulty, minWorkload, maxWorkload,
                 toggleVars, pageSize, pageNumber>>
  /\ IF minDifficulty' = minDifficulty THEN Bailout ELSE Rerender

\* onBlur of the input: setMaxDifficulty(parseFloat(e.currentTarget.value))
SetMaxDifficulty(text) ==
  /\ ~effectPending
  /\ events' = events + 1
  /\ maxDifficulty' = parseFloat(text)
  /\ UNCHANGED <<apiVars, courses, engine, sort, minReviewCount, maxReviewCount, minRating, maxRating, minDifficulty, minWorkload, maxWorkload,
                 toggleVars, pageSize, pageNumber>>
  /\ IF maxDifficulty' = maxDifficulty THEN Bailout ELSE Rerender

\* onBlur of the input: setMinWorkload(parseFloat(e.currentTarget.value))
SetMinWorkload(text) ==
  /\ ~effectPending
  /\ events' = events + 1
  /\ minWorkload' = parseFloat(text)
  /\ UNCHANGED <<apiVars, courses, engine, sort, minReviewCount, maxReviewCount, minRating, maxRating, minDifficulty, maxDifficulty, maxWorkload,
                 toggleVars, pageSize, pageNumber>>
  /\ IF minWorkload' = minWorkload THEN Bailout ELSE Rerender

\* onBlur of the input: setMaxWorkload(parseFloat(e.currentTarget.value))
SetMaxWorkload(text) ==
  /\ ~effectPending
  /\ events' = events + 1
  /\ maxWorkload' = parseFloat(text)
  /\ UNCHANGED <<apiVars, courses, engine, sort, minReviewCount, maxReviewCount, minRating, maxRating, minDifficulty, maxDifficulty, minWorkload,
                 toggleVars, pageSize, pageNumber>>
  /\ IF maxWorkload' = maxWorkload THEN Bailout ELSE Rerender

\* onChange of the toggle "Hide deprecated"
SetHideDeprecated(enabled) ==
  /\ ~effectPending
  /\ events' = events + 1
  /\ hideDeprecated' = enabled
  /\ UNCHANGED <<apiVars, courses, engine, sort, rangeVars, onlyShowFoundational, pageSize, pageNumber>>
  /\ IF hideDeprecated' = hideDeprecated THEN Bailout ELSE Rerender

\* onChange of the toggle "Foundational only"
SetOnlyShowFoundational(enabled) ==
  /\ ~effectPending
  /\ events' = events + 1
  /\ onlyShowFoundational' = enabled
  /\ UNCHANGED <<apiVars, courses, engine, sort, rangeVars, hideDeprecated, pageSize, pageNumber>>
  /\ IF onlyShowFoundational' = onlyShowFoundational THEN Bailout ELSE Rerender

\* a column header that keeps the direction when the attribute changes
toggleSortKeepDirection(attribute) ==
  /\ ~effectPending
  /\ events' = events + 1
  /\ sort' = IF sort.attribute # attribute
             THEN [attribute |-> attribute, direction |-> sort.direction]
             ELSE [attribute |-> attribute,
                   direction |-> IF sort.direction = "asc" THEN "desc" ELSE "asc"]
  /\ UNCHANGED <<apiVars, courses, engine, rangeVars, toggleVars, pageSize, pageNumber>>
  /\ Rerender

\* onClick of a column header; setSort gets a new object, so Home renders
toggleSort(attribute) ==
  /\ ~effectPending
  /\ events' = events + 1
  /\ sort' = IF sort.attribute # attribute
             THEN [attribute |-> attribute, direction |-> "asc"]
             ELSE [attribute |-> attribute,
                   direction |-> IF sort.direction = "asc" THEN "desc" ELSE "asc"]
  /\ UNCHANGED <<apiVars, courses, engine, rangeVars, toggleVars, pageSize, pageNumber>>
  /\ Rerender

\* a page-size button that also goes back to the first page
changePageSizeResetPage(nextPageSize) ==
  /\ ~effectPending
  /\ nextPageSize # props.pageSize
  /\ events' = events + 1
  /\ pageSize' = nextPageSize
  /\ pageNumber' = 0
  /\ UNCHANGED <<apiVars, courses, engine, sort, rangeVars, toggleVars>>
  /\ Rerender

\* onClick of a page-size button: size != pageSize && changePageSize(size)
changePageSize(nextPageSize) ==
  /\ ~effectPending
  /\ nextPageSize # props.pageSize
  /\ events' = events + 1
  /\ pageSize' = nextPageSize
  /\ UNCHANGED <<apiVars, courses, engine, sort, rangeVars, toggleVars, pageNumber>>
  /\ Rerender

\* setPageNumber as called by Pagination
onPageChange(nextPage) ==
  /\ pageNumber' = nextPage
  /\ UNCHANGED <<apiVars, courses, engine, sort, rangeVars, toggleVars, pageSize>>
  /\ IF pageNumber' = pageNumber THEN Bailout ELSE Rerender

\* onClick of a page label
clickPage(page) ==
  /\ ~effectPending
  /\ page \in PageButtons
  /\ events' = events + 1
  /\ onPageChange(page)

\* onClick of Next (the button is disabled without hasNextPage)
incrementPageNumber ==
  /\ ~effectPending
  /\ hasNextPage(props)
  /\ events' = events + 1
  /\ onPageChange(props.pageNumber + 1)

\* onClick of Previous (the button is disabled without hasPrevPage)
decrementPageNumber ==
  /\ ~effectPending
  /\ hasPrevPage(props)
  /\ events' = events + 1
  /\ onPageChange(props.pageNumber - 1)

----------------------------------------------------------------------------
(* The list view: Home mounted with a catalogue, every event *)

Init == \E cs \in Catalogues : Mount(cs)

Next ==
  \/ RunEffect
  \/ events < MaxEvents /\ \E text \in HomeTexts : SetMinReviewCount(text)
  \/ events < MaxEvents /\ \E text \in HomeTexts : SetMaxReviewCount(text)
  \/ events < MaxEvents /\ \E text \in HomeTexts : SetMinRating(text)
  \/ events < MaxEvents /\ \E text \in HomeTexts : SetMaxRating(text)
  \/ events < MaxEvents /\ \E text \in HomeTexts : SetMinDifficulty(text)
  \/ events < MaxEvents /\ \E text \in HomeTexts : SetMaxDifficulty(text)
  \/ events < MaxEvents /\ \E text \in HomeTexts : SetMinWorkload(text)
  \/ events < MaxEvents /\ \E text \in HomeTexts : SetMaxWorkload(text)
  \/ events < MaxEvents /\ \E enabled \in BOOLEAN : SetHideDeprecated(enabled)
  \/ events < MaxEvents /\ \E enabled \in BOOLEAN : SetOnlyShowFoundational(enabled)
  \/ events < MaxEvents /\ \E attribute \in Attributes : toggleSort(attribute)
  \/ events < MaxEvents /\ \E k \in 1..Len(pageSizes) : changePageSize(pageSizes[k])
  \/ events < MaxEvents /\ \E page \in PageButtons : clickPage(page)
  \/ events < MaxEvents /\ incrementPageNumber
  \/ events < MaxEvents /\ decrementPageNumber

Spec == Init /\ [][Next]_vars

----------------------------------------------------------------------------
(* The filter form: Home mounted with FilterCatalogue, the events of the   *)
(* filter form                                                             *)

InitFilter == Mount(FilterCatalogue)

NextFilter ==
  \/ RunEffect
  \/ events < MaxFilterEvents /\ \E text \in Texts : SetMinReviewCount(text)
  \/ events < MaxFilterEvents /\ \E text \in Texts : SetMaxReviewCount(text)
  \/ events < MaxFilterEvents /\ \E text \in Texts : SetMinRating(text)
  \/ events < MaxFilterEvents /\ \E text \in Texts : SetMaxRating(text)
  \/ events < MaxFilterEvents /\ \E text \in Texts : SetMinDifficulty(text)
  \/ events < MaxFilterEvents /\ \E text \in Texts : SetMaxDifficulty(text)
  \/ events < MaxFilterEvents /\ \E text \in Texts : SetMinWorkload(text)
  \/ events < MaxFilterEvents /\ \E text \in Texts : SetMaxWorkload(text)
  \/ events < MaxFilterEvents /\ \E enabled \in BOOLEAN : SetHideDeprecated(enabled)
  \/ events < MaxFilterEvents /\ \E enabled \in BOOLEAN : SetOnlyShowFoundational(enabled)

SpecFilter == InitFilter /\ [][NextFilter]_vars

----------------------------------------------------------------------------
(* The sort headers: Home mounted with a short collection, the events of   *)
(* the column headers and of the Min Reviews field (the default minimum of *)
(* one review hides the courses without reviews)                           *)

InitSort == \E cs \in SortInputs : Mount(cs)

NextSort ==
  \/ RunEffect
  \/ events < MaxSortEvents /\ \E attribute \in Attributes : toggleSort(attribute)
  \/ events < MaxSortEvents /\ \E text \in SortTexts : SetMinReviewCount(text)

SpecSort == InitSort /\ [][NextSort]_vars

----------------------------------------------------------------------------
(* Pagination on its own: mounted with any props by a parent that stores   *)
(* the page number and page size it is called back with                    *)

InitWindow ==
  /\ HomeState(<<>>)
  /\ Idle
  /\ current = <<>>
  /\ effectPending = FALSE
  /\ props \in WindowProps
  /\ paginationChunks = PaginationChunks(props)

WindowRender(p) ==
  /\ props' = p
  /\ paginationChunks' = PaginationChunks(props')
  /\ UNCHANGED <<apiVars, courses, engine, sort, rangeVars, toggleVars, pageSize, pageNumber,
                 current, effectPending, events>>

\* onClick={() => onPageChange(page)}
WindowClickPage(page) == page \in PageButtons /\ WindowRender([props EXCEPT !.pageNumber = page])

WindowIncrement ==
  hasNextPage(props) /\ WindowRender([props EXCEPT !.pageNumber = props.pageNumber + 1])

WindowDecrement ==
  hasPrevPage(props) /\ WindowRender([props EXCEPT !.pageNumber = props.pageNumber - 1])

WindowChangePageSize(size) ==
  size # props.pageSize /\ WindowRender([props EXCEPT !.pageSize = size])

NextWindow ==
  \/ \E page \in PageButtons : WindowClickPage(page)
  \/ WindowIncrement
  \/ WindowDecrement
  \/ \E k \in 1..Len(pageSizes) : WindowChangePageSize(pageSizes[k])

SpecWindow == InitWindow /\ [][NextWindow]_vars

----------------------------------------------------------------------------
(* The reviews API next to a list view with no course. A request is        *)
(* handled in one piece (handler awaits nothing) and handler keeps nothing *)
(* from one request to the next, so a behaviour handles one request.       *)

InitReviews == Mount(<<>>)

Handle(request) ==
  /\ ~effectPending
  /\ Idle
  /\ req' = request
  /\ res' = handler(request)
  /\ UNCHANGED <<courses, engine, sort, rangeVars, toggleVars, pageSize, pageNumber,
                 current, props, paginationChunks, effectPending, events>>

NextReviews ==
  \/ RunEffect
  \/ Idle /\ \E request \in Requests : Handle(request)

SpecReviews == InitReviews /\ [][NextReviews]_vars

----------------------------------------------------------------------------
(* Properties *)

Max(a, b) == IF a >= b THEN a ELSE b

InCurrent(c) == \E j \in 1..Len(current) : current[j] = c

EffMin(a) ==
  CASE a = "reviewCount" -> EffMinReviewCount
    [] a = "rating" -> EffMinRating
    [] a = "difficulty" -> EffMinDifficulty
    [] a = "workload" -> EffMinWorkload

EffMax(a) ==
  CASE a = "reviewCount" -> EffMaxReviewCount
    [] a = "rating" -> EffMaxRating
    [] a = "difficulty" -> EffMaxDifficulty
    [] a = "workload" -> EffMaxWorkload

\* value is absent, or lo <= value <= hi; hi may be Infinity
Within(value, lo, hi) ==
  value.t = "null" \/ (lo.v <= value.v /\ (hi.t = "inf" \/ value.v <= hi.v))

TogglesAdmit(c) ==
  /\ (hideDeprecated => ~c.isDeprecated)
  /\ (onlyShowFoundational => c.isFoundational)

\* C1: once the effect of the last event has run, the current page starts
\* inside the filtered collection: pageNumber * pageSize < max(filtered.length, 1).
C1_PageBounds ==
  ~effectPending => pageNumber * pageSize < Max(Len(Filtered), 1)

\* C2: when the effect finds the current page starting at or beyond the end of
\* the filtered collection it sets pageNumber to floor(length / pageSize), which
\* is 0 for an empty collection and 1 for length 15 with pageSize 10.
C2_ClampToFloor ==
  [][(effectPending /\ pageSize * pageNumber >= Len(current))
       => /\ pageNumber' = Len(current) \div pageSize
          /\ (Len(current) = 0 => pageNumber' = 0)
          /\ (Len(current) = 15 /\ pageSize = 10 => pageNumber' = 1)]_vars

\* page 3 of 23 courses was shown and a filter has just cut the result to 15
C2_Witness ==
  /\ effectPending
  /\ Len(courses) = 23 /\ Len(current) = 15
  /\ pageSize = 10 /\ pageNumber = 2

\* C3: a course is in the filtered result iff each of its four numeric
\* attributes is absent or within its effective bounds, it is not deprecated
\* when hideDeprecated is on and it is foundational when onlyShowFoundational
\* is on.
C3_AdmittedIffConstraints ==
  \A i \in 1..Len(courses) :
    InCurrent(courses[i]) <=>
      /\ \A a \in NumericAttributes : Within(courses[i][a], EffMin(a), EffMax(a))
      /\ TogglesAdmit(courses[i])

\* a rating bound and the review-count bound each exclude some course
C3_Witness ==
  /\ minRating = Num(4) /\ minReviewCount = Num(0)
  /\ Len(current) = 3
  /\ \E j \in 1..3 : current[j].rating = Null

\* C4: a course whose attribute is absent passes the range filter on that
\* attribute whatever the bounds: it is admitted iff its other attributes and
\* the toggles admit it.
C4_AbsentPasses ==
  \A i \in 1..Len(courses) : \A a \in NumericAttributes :
    courses[i][a] = Null =>
      (InCurrent(courses[i]) <=>
         /\ \A b \in NumericAttributes \ {a} : Within(courses[i][b], EffMin(b), EffMax(b))
         /\ TogglesAdmit(courses[i]))

\* the workload bounds admit no number (min 4 > max 2) and the course without
\* a workload is the one that is left
C4_Witness ==
  /\ minWorkload = Num(4) /\ maxWorkload = Num(2)
  /\ Len(current) = 1
  /\ current[1].workload = Null

\* C5: an entered bound is the effective bound (0 included: with max
\* reviewCount 0 only courses with 0 reviews are admitted), an absent bound
\* gives the domain default.
EnteredOrDefault(entered, effective, default) ==
  /\ entered.t = "num" => effective = entered
  /\ entered = Undefined => effective = default

C5_EnteredBoundIsEffective ==
  /\ EnteredOrDefault(minReviewCount, EffMinReviewCount, Num(0))
  /\ EnteredOrDefault(maxReviewCount, EffMaxReviewCount, Infinity)
  /\ EnteredOrDefault(minRating, EffMinRating, Num(1))
  /\ EnteredOrDefault(maxRating, EffMaxRating, Num(5))
  /\ EnteredOrDefault(minDifficulty, EffMinDifficulty, Num(1))
  /\ EnteredOrDefault(maxDifficulty, EffMaxDifficulty, Num(5))
  /\ EnteredOrDefault(minWorkload, EffMinWorkload, Num(1))
  /\ EnteredOrDefault(maxWorkload, EffMaxWorkload, Num(100))
  /\ maxReviewCount = Num(0) => \A j \in 1..Len(current) : current[j].reviewCount = Num(0)

PosIn(seq, c) == CHOOSE k \in 1..Len(seq) : seq[k] = c

Elements(seq) == {seq[k] : k \in 1..Len(seq)}

Sign(n) == IF n < 0 THEN -1 ELSE IF n > 0 THEN 1 ELSE 0

\* C6: under a numeric sort attribute, in either direction, every record whose
\* attribute is absent comes after every record whose attribute is present.
C6_NullLast ==
  sort.attribute \in NumericAttributes =>
    \A i, j \in 1..Len(current) :
      (i < j /\ current[i][sort.attribute] = Null) => current[j][sort.attribute] = Null

\* two courses without a rating came first in the collection and are last in
\* the result sorted by rating, descending
C6_Witness ==
  /\ sort = [attribute |-> "rating", direction |-> "desc"]
  /\ Len(courses) = 3 /\ Len(current) = 3
  /\ courses[1].rating = Null /\ courses[2].rating = Null
  /\ current[1].rating # Null
  /\ current[2].rating = Null /\ current[3].rating = Null

\* C7: the sort is stable: two records with equal keys under the sort attribute
\* (both absent included) keep the relative order they have in the collection.
EqualKeys(a, b) == a[sort.attribute] = b[sort.attribute]

C7_Stable ==
  \A i, j \in 1..Len(current) :
    (i < j /\ EqualKeys(current[i], current[j]))
      => PosIn(courses, current[i]) < PosIn(courses, current[j])

\* C8: the comparator is a total preorder on the records of the collection:
\* antisymmetric in sign, and transitive.
C8_TotalPreorder ==
  \A a, b, c \in Elements(courses) :
    /\ Sign(comparefn(a, b)) = 0 - Sign(comparefn(b, a))
    /\ (comparefn(a, b) <= 0 /\ comparefn(b, c) <= 0) => comparefn(a, c) <= 0

\* C9: the records with a present sort attribute are in non-decreasing order
\* under asc and non-increasing order under desc; switching the direction
\* reverses the order of two present records with different keys and leaves
\* the absent ones behind the present ones.
Present(c) == c[sort.attribute] # Null

SortedByDirection ==
  sort.attribute \in NumericAttributes =>
    \A i, j \in 1..Len(current) :
      (i < j /\ Present(current[i]) /\ Present(current[j])) =>
        IF sort.direction = "asc"
        THEN current[i][sort.attribute].v <= current[j][sort.attribute].v
        ELSE current[i][sort.attribute].v >= current[j][sort.attribute].v

SwitchReverses ==
  (/\ sort.attribute \in NumericAttributes
   /\ sort'.attribute = sort.attribute
   /\ sort'.direction # sort.direction) =>
    \A a, b \in Elements(current) :
      /\ (Present(a) /\ Present(b) /\ ~EqualKeys(a, b)) =>
           (PosIn(current, a) < PosIn(current, b) <=> PosIn(current', b) < PosIn(current', a))
      /\ (Present(a) /\ ~Present(b)) => PosIn(current', a) < PosIn(current', b)

C9_Direction == [][SortedByDirection /\ SortedByDirection' /\ SwitchReverses]_vars

\* the ratings 5, 3 and none, sorted by rating descending, reached by
\* switching the direction
C9_Witness ==
  /\ sort = [attribute |-> "rating", direction |-> "desc"]
  /\ Len(current) = 3
  /\ current[1].rating = Num(5) /\ current[2].rating = Num(3) /\ current[3].rating = Null
  /\ courses[1].rating = Null /\ courses[2].rating = Num(3)

\* C10: for totalPages >= 1 and 0 <= pageNumber < totalPages the page window is
\* one group of all pages up to 7 pages; else [0..4] and [last] for pageNumber
\* <= 3; else [0] and the last five pages for totalPages - pageNumber <= 4; else
\* [0], [pageNumber - 1 .. pageNumber + 1], [last].
Pages(lo, hi) == [i \in 1..(hi - lo + 1) |-> lo + i - 1]

\* the least n with n * pageSize >= resultCount
PageCount == 
  CHOOSE n \in 0..props.resultCount :
    n * props.pageSize >= props.resultCount /\ (n > 0 => (n - 1) * props.pageSize < props.resultCount)

Window(tp, pn) ==
  IF tp <= 7 THEN << Pages(0, tp - 1) >>
  ELSE IF pn <= 3 THEN << Pages(0, 4), <<tp - 1>> >>
  ELSE IF tp - pn <= 4 THEN << <<0>>, Pages(tp - 5, tp - 1) >>
  ELSE << <<0>>, Pages(pn - 1, pn + 1), <<tp - 1>> >>

C10_PageWindow ==
  (PageCount >= 1 /\ 0 <= props.pageNumber /\ props.pageNumber < PageCount) =>
    /\ paginationChunks = Window(PageCount, props.pageNumber)
    /\ (PageCount = 5 /\ props.pageNumber = 2) =>
         paginationChunks = << <<0, 1, 2, 3, 4>> >>
    /\ (PageCount = 10 /\ props.pageNumber = 1) =>
         paginationChunks = << <<0, 1, 2, 3, 4>>, <<9>> >>
    /\ (PageCount = 10 /\ props.pageNumber = 8) =>
         paginationChunks = << <<0>>, <<5, 6, 7, 8, 9>> >>
    /\ (PageCount = 10 /\ props.pageNumber = 5) =>
         paginationChunks = << <<0>>, <<4, 5, 6>>, <<9>> >>

\* page 6 of 10 is shown with three groups
C10_Witness ==
  /\ PageCount = 10 /\ props.pageNumber = 5
  /\ paginationChunks = << <<0>>, <<4, 5, 6>>, <<9>> >>

\* C11: with no page at all (totalPages = 0) the page window has no page and
\* no group: the list of groups is empty, not a list holding one empty group.
C11_NoGroups ==
  PageCount = 0 => paginationChunks = <<>>

\* C11, as the code has it: with no page at all the page window is the single
\* group of the "up to 7 pages" case, holding no page: no page label and no
\* gap between groups is rendered.
C11_OneEmptyGroup ==
  PageCount = 0 =>
    /\ paginationChunks = << <<>> >>
    /\ Len(paginationChunks) = 1
    /\ PageButtons = {}

\* Pagination rendered with no result at page size 25
C11_Witness ==
  /\ props.resultCount = 0 /\ props.pageSize = 25
  /\ PageCount = 0
  /\ Len(paginationChunks) = 1 /\ Len(paginationChunks[1]) = 0

\* C12: a click on a column header with the sort attribute flips the direction
\* and keeps the attribute; a click on another header gives that attribute,
\* ascending, whatever the direction was. The sort starts as {reviewCount,
\* desc}; from there a click on name gives {name, asc} and a second one
\* {name, desc}.
DefaultSort == [attribute |-> "reviewCount", direction |-> "desc"]

Flipped(direction) == IF direction = "asc" THEN "desc" ELSE "asc"

C12_ToggleSort ==
  [][/\ (events = 0 => sort = DefaultSort)
     /\ (sort' # sort) =>
          /\ sort'.attribute \in Attributes
          /\ IF sort'.attribute = sort.attribute
             THEN sort'.direction = Flipped(sort.direction)
             ELSE sort'.direction = "asc"
     /\ (sort = DefaultSort /\ sort'.attribute = "name") =>
          sort' = [attribute |-> "name", direction |-> "asc"]
     /\ (sort = [attribute |-> "name", direction |-> "asc"]
           /\ sort' # sort /\ sort'.attribute = "name") =>
          sort' = [attribute |-> "name", direction |-> "desc"]]_vars

\* the name header was clicked twice, starting from the default sort
C12_Witness ==
  /\ events = 2 /\ ~effectPending
  /\ sort = [attribute |-> "name", direction |-> "desc"]
  /\ minReviewCount = Num(1)

\* C13: a bound whose text fails to parse (the empty text, a text that is not
\* a number) is no value: the effective bound is the domain default of the
\* attribute (not 0 in place of it), so such a bound excludes no course.
NoNumber(text) == text = <<>> \/ \A i \in 1..Len(text) : ~IsDigit(text[i])

\* x is what a field stores for a text that fails to parse
Unparsed(x) == \E text \in Texts : NoNumber(text) /\ x = parseFloat(text)

NoBound(x) == x = Undefined \/ Unparsed(x)

C13_UnparsedIsNoBound ==
  /\ Unparsed(minReviewCount) => EffMinReviewCount = Num(0)
  /\ Unparsed(maxReviewCount) => EffMaxReviewCount = Infinity
  /\ Unparsed(minRating) => EffMinRating = Num(1)
  /\ Unparsed(maxRating) => EffMaxRating = Num(5)
  /\ Unparsed(minDifficulty) => EffMinDifficulty = Num(1)
  /\ Unparsed(maxDifficulty) => EffMaxDifficulty = Num(5)
  /\ Unparsed(minWorkload) => EffMinWorkload = Num(1)
  /\ Unparsed(maxWorkload) => EffMaxWorkload = Num(100)
  /\ (\A a \in NumericAttributes : EffMax(a) # Num(0))
       \/ (\E x \in {maxReviewCount, maxRating, maxDifficulty, maxWorkload} : ~NoBound(x))
  /\ ((\A i \in 1..8 : NoBound(rangeVars[i])) /\ ~hideDeprecated /\ ~onlyShowFoundational)
       => Len(current) = Len(courses)

\* Min Reviews was cleared and a text that is not a number was left in Max
\* Rating: every course is listed
C13_Witness ==
  /\ events = 2 /\ ~effectPending
  /\ Unparsed(minReviewCount) /\ Unparsed(maxRating)
  /\ Len(current) = Len(courses) /\ Len(courses) = 5

\* C14: a numeric bound outside the domain of its attribute (min rating 7,
\* max workload 500, a negative number) is no bound: the effective bound is
\* the domain default, so such a bound never narrows or empties the result.
DomainMin(a) == IF a = "reviewCount" THEN Num(0) ELSE Num(1)

DomainMax(a) ==
  CASE a = "reviewCount" -> Infinity
    [] a = "workload" -> Num(100)
    [] OTHER -> Num(5)

EnteredMin(a) ==
  CASE a = "reviewCount" -> minReviewCount
    [] a = "rating" -> minRating
    [] a = "difficulty" -> minDifficulty
    [] a = "workload" -> minWorkload

EnteredMax(a) ==
  CASE a = "reviewCount" -> maxReviewCount
    [] a = "rating" -> maxRating
    [] a = "difficulty" -> maxDifficulty
    [] a = "workload" -> maxWorkload

OutOfDomain(x, a) ==
  /\ x.t = "num"
  /\ x.v < DomainMin(a).v \/ (DomainMax(a).t = "num" /\ x.v > DomainMax(a).v)

C14_OutOfDomainIsNoBound ==
  \A a \in NumericAttributes :
    /\ OutOfDomain(EnteredMin(a), a) => EffMin(a) = DomainMin(a)
    /\ OutOfDomain(EnteredMax(a), a) => EffMax(a) = DomainMax(a)
    /\ (\A b \in NumericAttributes :
          /\ NoBound(EnteredMin(b)) \/ OutOfDomain(EnteredMin(b), b)
          /\ NoBound(EnteredMax(b)) \/ OutOfDomain(EnteredMax(b), b))
       => \A i \in 1..Len(courses) : TogglesAdmit(courses[i]) => InCurrent(courses[i])

\* C15: a change of the page size to s writes pageSize only: the filter
\* criteria, the sort and, in that step, pageNumber stay as they are. The
\* effect that follows leaves pageNumber alone when pageNumber * s <
\* filtered.length and sets it to floor(filtered.length / s) otherwise, changes
\* nothing else, and the view is settled by an effect run that changes nothing.
C15_PageSizeChange ==
  [][/\ (pageSize' # pageSize) =>
          /\ \E k \in 1..Len(pageSizes) : pageSize' = pageSizes[k]
          /\ pageNumber' = pageNumber
          /\ UNCHANGED <<courses, sort, rangeVars, toggleVars>>
          /\ effectPending'
     /\ effectPending =>
          /\ UNCHANGED <<courses, sort, rangeVars, toggleVars, pageSize>>
          /\ pageNumber' = IF pageNumber * pageSize < Len(Filtered)
                           THEN pageNumber
                           ELSE Len(Filtered) \div pageSize
     /\ (effectPending /\ ~effectPending') => pageNumber' = pageNumber]_vars

\* page 3 of 23 courses was shown and the page size has just become 25: the
\* effect is about to set pageNumber to floor(23 / 25)
C15_Witness ==
  /\ effectPending /\ events = 2
  /\ pageSize = 25 /\ pageNumber = 2
  /\ Len(Filtered) = 23

\* C16: every event is applied in full (state change, filter and sort, clamp
\* of the page) before a view is rendered: no view, that is no visible slice
\* with its page window, is rendered from a state with pageNumber * pageSize
\* >= max(filtered.length, 1).
C16_NoViewOutOfRange ==
  /\ props.resultCount = Len(current)
  /\ props.pageNumber * props.pageSize < Max(props.resultCount, 1)

\* the same for the views that stay on screen, after the effect has run
C16_NoSettledViewOutOfRange ==
  ~effectPending => props.pageNumber * props.pageSize < Max(props.resultCount, 1)

\* C17: the collection Home is given is never modified, and the filtered and
\* sorted result is a permutation of exactly the admitted records: each
\* admitted record occurs in it once and nothing else does.
Admitted == {c \in Elements(courses) : Admit(c)}

\* the records of the collection are distinct (each has its own id), so a
\* permutation of the admitted ones holds each of them once
PermutationOfAdmitted ==
  /\ Elements(current) = Admitted
  /\ Len(current) = Cardinality(Admitted)

C17_Permutation ==
  [][/\ courses' = courses
     /\ \A i, j \in 1..Len(courses) : courses[i] = courses[j] => i = j
     /\ PermutationOfAdmitted
     /\ PermutationOfAdmitted']_vars

\* a filter has removed some of the 12 courses and the rest is listed by
\* name, in another order than the collection's
C17_Witness ==
  /\ events = 2 /\ ~effectPending
  /\ Len(courses) = 12
  /\ sort.attribute = "name"
  /\ 1 < Len(current) /\ Len(current) < Len(courses)
  /\ current # Filtered
  /\ PermutationOfAdmitted

\* C18: before any event every range bound is absent, so with both toggles
\* off every course of the collection is listed, the courses with no review
\* (reviewCount 0) included.
C18_InitiallyAllAdmitted ==
  events = 0 =>
    /\ \A i \in 1..8 : rangeVars[i] = Undefined
    /\ ~hideDeprecated /\ ~onlyShowFoundational
    /\ \A i \in 1..Len(courses) : InCurrent(courses[i])

\* C18, as the code has it: before any event every range bound is absent but
\* the minimum of reviews, which is 1 ("by default only show courses with 1+
\* review"); the effective bounds are the domain defaults but for reviewCount,
\* [1, +inf), and with both toggles off the courses listed are those with at
\* least one review: a course with reviewCount 0 is not listed.
C18_InitiallyReviewedOnly ==
  events = 0 =>
    /\ minReviewCount = Num(1)
    /\ \A i \in 2..8 : rangeVars[i] = Undefined
    /\ EffMinReviewCount = Num(1) /\ EffMaxReviewCount = Infinity
    /\ \A a \in NumericAttributes \ {"reviewCount"} :
         EffMin(a) = DomainMin(a) /\ EffMax(a) = DomainMax(a)
    /\ ~hideDeprecated /\ ~onlyShowFoundational
    /\ \A i \in 1..Len(courses) :
         InCurrent(courses[i]) <=>
           (courses[i].reviewCount = Null \/ courses[i].reviewCount.v >= 1)

\* Home has mounted with three courses, one of them without a review, and
\* lists the other two
C18_Witness ==
  /\ events = 0 /\ ~effectPending
  /\ Len(courses) = 3 /\ Len(current) = 2
  /\ \E i \in 1..3 : courses[i].reviewCount = Num(0) /\ ~InCurrent(courses[i])


\* C20: the Next control takes pageNumber to pageNumber + 1 only if
\* (pageNumber + 1) * pageSize < resultCount, that is only if the following
\* page holds a record: wherever Next acts (hasNextPage), the following page
\* holds a record, so Next never leads to an empty page.
C20_NextOnlyToRecords ==
  hasNextPage(props) => (props.pageNumber + 1) * props.pageSize < props.resultCount

\* C20 on the steps of Pagination: a step to the following page that is not a
\* click on a page label (the page has no label) is a step to a page that
\* holds a record.
C20_NextStepOnlyToRecords ==
  [][(/\ props'.pageNumber = props.pageNumber + 1
      /\ props'.pageSize = props.pageSize
      /\ props'.pageNumber \notin PageButtons)
       => (props.pageNumber + 1) * props.pageSize < props.resultCount]_vars

\* C19: the handler of the reviews API sends exactly one response for a
\* request: 405 with an empty body when the method is not POST, whatever the
\* body is; 400 with a list of at least one error when the method is POST and
\* the body fails the schema; 201 when, and only when, the method is POST and
\* the body satisfies the schema: rating and difficulty integers in [1, 5],
\* workload an integer in [1, 100], every string field present.
IsText(x) == x.t = "str" /\ Len(x.v) > 0

\* the integer x denotes, as a number or as the text of one; 0 - 1 otherwise
IntegerOf(x) ==
  IF x.t = "num" THEN x.v
  ELSE IF x.t = "str" /\ IsNumeral(x.v) THEN parseFloat(x.v).v
  ELSE 0 - 1

SatisfiesSchema(body) ==
  /\ body.t = "object"
  /\ \A key \in {"semesterId", "courseId", "body", "username"} : IsText(body.v[key])
  /\ IntegerOf(body.v.rating) \in 1..5
  /\ IntegerOf(body.v.difficulty) \in 1..5
  /\ IntegerOf(body.v.workload) \in 1..100
  /\ body.v.code = Undefined

C19_OneResponse ==
  req # NoRequest =>
    /\ Len(res) = 1
    /\ res[1].status \in {405, 400, 201}
    /\ req.method # "POST" => res[1] = Empty(405)
    /\ (req.method = "POST" /\ ~SatisfiesSchema(req.body)) =>
         /\ res[1].status = 400
         /\ res[1].keys = {"errors"}
         /\ Len(res[1].errors) >= 1
    /\ (req.method = "POST" /\ SatisfiesSchema(req.body)) => res[1] = Empty(201)
    /\ res[1].status = 201 =>
         /\ req.method = "POST"
         /\ req.body.t = "object"
         /\ \A key \in {"semesterId", "courseId", "body", "username"} :
              req.body.v[key] # Undefined

\* a POST whose rating is 6 and whose username is missing got one 400 with
\* two errors
C19_Witness ==
  /\ req.method = "POST" /\ req.body.t = "object"
  /\ req.body.v.rating = Num(6) /\ req.body.v.username = Undefined
  /\ Len(res) = 1 /\ res[1].status = 400 /\ Len(res[1].errors) = 2

\* C21: for more than 7 pages and 0 <= pageNumber < totalPages the page window
\* is well formed: its groups, read in order, give a strictly increasing
\* sequence of pages within 0 .. totalPages - 1 that contains 0, totalPages - 1
\* and pageNumber, and between two consecutive groups at least one page is
\* left out.
StrictlyIncreasing(seq) == \A i \in 1..(Len(seq) - 1) : seq[i] < seq[i + 1]

WellFormed(chunks, tp, pn) ==
  /\ \A g \in 1..Len(chunks) : Len(chunks[g]) >= 1
  /\ StrictlyIncreasing(Flatten(chunks))
  /\ Elements(Flatten(chunks)) \subseteq 0..(tp - 1)
  /\ {0, tp - 1, pn} \subseteq Elements(Flatten(chunks))
  /\ \A g \in 1..(Len(chunks) - 1) :
       chunks[g][Len(chunks[g])] + 1 < chunks[g + 1][1]

C21_WellFormedWindow ==
  (PageCount > 7 /\ 0 <= props.pageNumber /\ props.pageNumber < PageCount) =>
    WellFormed(paginationChunks, PageCount, props.pageNumber)

\* page 5 of 9, the first page that gets the three groups
C21_Witness ==
  /\ PageCount = 9 /\ props.pageNumber = 4
  /\ Len(paginationChunks) = 3
  /\ WellFormed(paginationChunks, 9, 4)

\* C22: the clamp of the page always settles. After an event the effect
\* changes pageNumber at most once: the value it sets is a fixed point of the
\* clamp, and an effect run at a fixed point changes nothing and schedules
\* nothing, so the renders caused by one event end, whatever the filtered
\* length and the page size.
ClampFixedPoint ==
  \/ pageNumber * pageSize < Len(current)
  \/ Len(current) \div pageSize = pageNumber

C22_ClampSettles ==
  [][effectPending =>
       /\ events' = events
       /\ (pageNumber' # pageNumber) => (effectPending' /\ ClampFixedPoint')
       /\ ClampFixedPoint => (pageNumber' = pageNumber /\ ~effectPending')]_vars

\* page 3 of 23 courses was shown and the page size has just become 50: the
\* page is out of range, the effect is about to change it, once
C22_Witness ==
  /\ effectPending /\ events = 2
  /\ pageSize = 50 /\ pageNumber = 2
  /\ Len(current) = 23
  /\ ~ClampFixedPoint

====
